---- MODULE Spec2Model ----
(***************************************************************************)
(* TaskFlow: the generic repository (core/repositories/base.py) over the   *)
(* models of apps/tasks/models.py, and the schema introspection of         *)
(* core/schema/introspection.py.                                           *)
(*                                                                         *)
(* Python values are tagged records [type, v]; a stored row keeps the      *)
(* plain value of each column, with None standing for Python's None in     *)
(* the integer-valued columns (dates, datetimes, foreign keys).  The clock *)
(* `now` counts days, so a datetime and its date are the same number.      *)
(***************************************************************************)
EXTENDS Integers, Sequences, FiniteSets, TLC

\* ------------------------------------------------------------------ bounds
\* the clock runs over 0..MaxTime
MaxTime == 1
\* at most MaxCreates rows are ever inserted, over all tables
MaxCreates == 2
\* a create call supplies at most MaxExtra optional field values next to the
\* required ones, an update call at most MaxExtra field values
MaxExtra == 1
\* page sizes asked of get_all range over 1..MaxPageSize
MaxPageSize == 2
\* an allow-list handed to validate_model_access names at most MaxAllowed models
MaxAllowed == 2

\* ---------------------------------------------------------- Python values
None == -1

PyNone == [type |-> "NoneType", v |-> None]
PyStr(s) == [type |-> "str", v |-> s]
PyInt(n) == [type |-> "int", v |-> n]
PyBool(b) == [type |-> "bool", v |-> b]
PyDatetime(t) == [type |-> "datetime", v |-> t]
PyFunction(f) == [type |-> "function", v |-> f]
NOT_PROVIDED == [type |-> "NOT_PROVIDED", v |-> None]

\* callable(x)
callable(x) == x.type = "function"

\* calling a no-argument callable at clock t
Call(f, t) ==
    CASE f.v = "timezone.now" -> PyDatetime(t)
      [] f.v = "dict" -> [type |-> "dict", v |-> "{}"]
      [] f.v = "default_factory" -> PyFunction("inner")
      [] OTHER -> PyNone

\* str(x) for a value that is no str/int/float/bool/None
str(x) ==
    CASE x.type = "datetime" -> PyStr("datetime(" \o ToString(x.v) \o ")")
      [] x.type = "dict" -> PyStr("{}")
      [] OTHER -> PyStr(ToString(x.v))

\* isinstance(x, (str, int, float, bool, type(None)))
IsPrimitive(x) == x.type \in {"str", "int", "float", "bool", "NoneType"}

\* ------------------------------------------------------- the model catalog
\* A field as django.db.models.Field builds it from its declaration.
Field(name, cls) ==
    [name |-> name, cls |-> cls, null |-> FALSE, blank |-> FALSE,
     default |-> NOT_PROVIDED, choices |-> <<>>, max_length |-> 0,
     unique |-> FALSE, help_text |-> "", related_model |-> "",
     auto_created |-> FALSE, concrete |-> TRUE, editable |-> TRUE,
     auto_now |-> FALSE, auto_now_add |-> FALSE,
     max_digits |-> None, decimal_places |-> None]

\* the implicit primary key
IdField ==
    [Field("id", "BigAutoField") EXCEPT !.blank = TRUE, !.unique = TRUE,
                                        !.auto_created = TRUE]

\* DateTimeField(auto_now_add=True): not editable, blank allowed
CreatedAt ==
    [Field("created_at", "DateTimeField") EXCEPT !.auto_now_add = TRUE,
                                   !.editable = FALSE, !.blank = TRUE]

\* DateTimeField(auto_now=True): not editable, blank allowed
UpdatedAt ==
    [Field("updated_at", "DateTimeField") EXCEPT !.auto_now = TRUE,
                                   !.editable = FALSE, !.blank = TRUE]

\* the reverse side of a relation declared on another model
ReverseRel(name, cls, target) ==
    [Field(name, cls) EXCEPT !.auto_created = TRUE, !.concrete = FALSE,
                             !.null = TRUE, !.related_model = target]

ProjectFields ==
    << ReverseRel("tasks", "ManyToOneRel", "Task"),
       IdField,
       [Field("name", "CharField") EXCEPT !.max_length = 200,
            !.help_text = "Project name"],
       [Field("description", "TextField") EXCEPT !.blank = TRUE,
            !.help_text = "Detailed project description"],
       [Field("status", "CharField") EXCEPT !.max_length = 20,
            !.choices = << <<"planning", "Planning">>, <<"active", "Active">>,
                           <<"on_hold", "On Hold">>, <<"completed", "Completed">>,
                           <<"archived", "Archived">> >>,
            !.default = PyStr("planning"),
            !.help_text = "Current project status"],
       [Field("start_date", "DateField") EXCEPT !.null = TRUE, !.blank = TRUE,
            !.help_text = "Project start date"],
       [Field("deadline", "DateField") EXCEPT !.null = TRUE, !.blank = TRUE,
            !.help_text = "Project deadline"],
       CreatedAt,
       UpdatedAt >>

TeamMemberFields ==
    << ReverseRel("assigned_tasks", "ManyToOneRel", "Task"),
       IdField,
       [Field("name", "CharField") EXCEPT !.max_length = 100,
            !.help_text = "Full name"],
       [Field("email", "EmailField") EXCEPT !.max_length = 254,
            !.unique = TRUE, !.help_text = "Email address"],
       [Field("role", "CharField") EXCEPT !.max_length = 20,
            !.choices = << <<"developer", "Developer">>, <<"designer", "Designer">>,
                           <<"manager", "Project Manager">>, <<"qa", "QA Tester">>,
                           <<"other", "Other">> >>,
            !.default = PyStr("developer"),
            !.help_text = "Team member role"],
       [Field("is_active", "BooleanField") EXCEPT !.default = PyBool(TRUE),
            !.help_text = "Is this member currently active?"],
       [Field("joined_at", "DateField") EXCEPT
            !.default = PyFunction("timezone.now"),
            !.help_text = "Date joined the team"],
       CreatedAt,
       UpdatedAt >>

TagFields ==
    << ReverseRel("tasks", "ManyToManyRel", "Task"),
       IdField,
       [Field("name", "CharField") EXCEPT !.max_length = 50, !.unique = TRUE,
            !.help_text = "Tag name"],
       [Field("color", "CharField") EXCEPT !.max_length = 7,
            !.default = PyStr("#3B82F6"),
            !.help_text = "Hex color code (e.g., #3B82F6)"],
       CreatedAt >>

TaskFields ==
    << IdField,
       [Field("title", "CharField") EXCEPT !.max_length = 200,
            !.help_text = "Brief task description"],
       [Field("description", "TextField") EXCEPT !.blank = TRUE,
            !.help_text = "Detailed task description"],
       [Field("project", "ForeignKey") EXCEPT !.related_model = "Project",
            !.help_text = "Project this task belongs to"],
       [Field("assigned_to", "ForeignKey") EXCEPT !.related_model = "TeamMember",
            !.null = TRUE, !.blank = TRUE,
            !.help_text = "Team member assigned to this task"],
       [Field("priority", "CharField") EXCEPT !.max_length = 10,
            !.choices = << <<"low", "Low">>, <<"medium", "Medium">>,
                           <<"high", "High">>, <<"urgent", "Urgent">> >>,
            !.default = PyStr("medium"),
            !.help_text = "Task priority level"],
       [Field("status", "CharField") EXCEPT !.max_length = 20,
            !.choices = << <<"todo", "To Do">>, <<"in_progress", "In Progress">>,
                           <<"review", "In Review">>, <<"done", "Done">>,
                           <<"blocked", "Blocked">> >>,
            !.default = PyStr("todo"),
            !.help_text = "Current task status"],
       [Field("estimated_hours", "PositiveIntegerField") EXCEPT !.null = TRUE,
            !.blank = TRUE, !.help_text = "Estimated hours to complete"],
       [Field("due_date", "DateField") EXCEPT !.null = TRUE, !.blank = TRUE,
            !.help_text = "Task due date"],
       [Field("completed_at", "DateTimeField") EXCEPT !.null = TRUE,
            !.blank = TRUE, !.help_text = "When task was completed"],
       CreatedAt,
       UpdatedAt,
       [Field("tags", "ManyToManyField") EXCEPT !.related_model = "Tag",
            !.blank = TRUE, !.concrete = FALSE, !.help_text = "Tags for categorization"] >>

\* the models the repository serves
Models == {"Project", "TeamMember", "Tag", "Task"}

\* model_class._meta.get_fields(); a framework model is known by its key only
GetFields(m) ==
    CASE m = "Project" -> ProjectFields
      [] m = "TeamMember" -> TeamMemberFields
      [] m = "Tag" -> TagFields
      [] m = "Task" -> TaskFields
      [] OTHER -> << IdField >>

\* field.has_default()
has_default(f) == f.default # NOT_PROVIDED

\* empty_strings_allowed of the field class
empty_strings_allowed(f) ==
    f.cls \in {"CharField", "TextField", "EmailField", "SlugField", "URLField"}

\* field.get_default() at clock t: a callable default is called
get_default(f, t) ==
    IF has_default(f)
    THEN IF callable(f.default) THEN Call(f.default, t) ELSE f.default
    ELSE IF ~empty_strings_allowed(f) \/ f.null THEN PyNone ELSE PyStr("")

\* ------------------------------------------------- schema/introspection.py
\* type_mapping of get_field_type
type_mapping ==
    [AutoField |-> "auto", BigAutoField |-> "auto", CharField |-> "string",
     TextField |-> "text", IntegerField |-> "integer",
     BigIntegerField |-> "integer", PositiveIntegerField |-> "integer",
     SmallIntegerField |-> "integer", FloatField |-> "float",
     DecimalField |-> "decimal", BooleanField |-> "boolean",
     DateField |-> "date", DateTimeField |-> "datetime", TimeField |-> "time",
     EmailField |-> "email", URLField |-> "url", SlugField |-> "slug",
     UUIDField |-> "uuid", FileField |-> "file", ImageField |-> "image",
     JSONField |-> "json", ForeignKey |-> "foreignkey",
     OneToOneField |-> "onetoone", ManyToManyField |-> "manytomany"]

\* str.lower() on the class names that have no entry in type_mapping
lower(s) ==
    CASE s = "DurationField" -> "durationfield"
      [] s = "ManyToOneRel" -> "manytoonerel"
      [] s = "ManyToManyRel" -> "manytomanyrel"
      [] OTHER -> s

get_field_type(field) ==
    IF field.cls \in DOMAIN type_mapping
    THEN type_mapping[field.cls]
    ELSE lower(field.cls)

\* isinstance(field, (ForeignKey, OneToOneField, ManyToManyField))
IsRelation(field) ==
    field.cls \in {"ForeignKey", "OneToOneField", "ManyToManyField"}

\* the 'default' entry of a scalar field's schema, lines 99-110
DefaultEntry(field, t) ==
    IF has_default(field)
    THEN LET default == get_default(field, t) IN
         IF callable(default) THEN PyNone
         ELSE IF IsPrimitive(default) THEN default
         ELSE str(default)
    ELSE PyNone

\* the 'required' entry, line 74
RequiredMissesDefault(field) == ~field.null /\ ~field.blank

Required(field) == ~field.null /\ ~field.blank /\ ~has_default(field)

\* get_field_schema(field) at clock t ('label' is left out: it is the
\* capitalised verbose name, which no claim reads)
get_field_schema(field, t) ==
    LET base == [name |-> field.name,
                 type |-> get_field_type(field),
                 required |-> Required(field),
                 help_text |-> IF field.help_text # ""
                               THEN PyStr(field.help_text) ELSE PyNone]
    IN IF IsRelation(field)
       THEN base @@ [related_model |-> field.related_model,
                     many |-> (field.cls = "ManyToManyField")]
       ELSE base
            @@ (IF field.max_length # 0
                THEN [max_length |-> field.max_length] ELSE <<>>)
            @@ (IF field.choices # <<>>
                THEN [choices |-> [i \in DOMAIN field.choices |->
                                     [value |-> field.choices[i][1],
                                      label |-> field.choices[i][2]]]]
                ELSE <<>>)
            @@ [default |-> DefaultEntry(field, t)]
            @@ (IF field.cls = "DecimalField"
                THEN [max_digits |-> field.max_digits,
                      decimal_places |-> field.decimal_places]
                ELSE <<>>)
            @@ [unique |-> field.unique]

\* model._meta of the application's models; a framework model is known by
\* its registry entry only
Meta(model) ==
    CASE model.name = "Project" /\ model.app_label = "tasks" ->
           [db_table |-> "tasks_project", verbose_name |-> "Project",
            verbose_name_plural |-> "Projects"]
      [] model.name = "TeamMember" /\ model.app_label = "tasks" ->
           [db_table |-> "tasks_teammember", verbose_name |-> "Team Member",
            verbose_name_plural |-> "Team Members"]
      [] model.name = "Tag" /\ model.app_label = "tasks" ->
           [db_table |-> "tasks_tag", verbose_name |-> "Tag",
            verbose_name_plural |-> "Tags"]
      [] model.name = "Task" /\ model.app_label = "tasks" ->
           [db_table |-> "tasks_task", verbose_name |-> "Task",
            verbose_name_plural |-> "Tasks"]
      [] OTHER ->
           [db_table |-> model.app_label \o "_" \o model.name,
            verbose_name |-> model.name,
            verbose_name_plural |-> model.name \o "s"]

\* the fields of a registered model
FieldsOf(model) ==
    IF model.app_label = "tasks" THEN GetFields(model.name) ELSE << IdField >>

\* the loop of get_model_schema: reverse relations are skipped
ForwardFields(fields) ==
    SelectSeq(fields, LAMBDA field : ~(field.auto_created /\ ~field.concrete))

get_model_schema(model, t) ==
    LET fields == ForwardFields(FieldsOf(model)) IN
    [model_name |-> model.name,
     app_label |-> model.app_label,
     table_name |-> Meta(model).db_table,
     verbose_name |-> Meta(model).verbose_name,
     verbose_name_plural |-> Meta(model).verbose_name_plural,
     fields |-> [i \in DOMAIN fields |-> get_field_schema(fields[i], t)]]

\* the namespaces get_all_models_schema skips, line 197
BuiltinApps == {"auth", "contenttypes", "sessions", "admin"}

\* a faulty variant: the built-in namespaces are skipped only when no app is asked
SkippedUnlessAsked(model, app_label) ==
    \/ model.abstract
    \/ (app_label = "" /\ model.app_label \in BuiltinApps)

\* the two `continue` tests of the loop, lines 192-198
Skipped(model, app_label) ==
    \/ model.abstract
    \/ model.app_label \in BuiltinApps

RECURSIVE SchemasOf(_, _, _, _)
\* the loop of get_all_models_schema over models[1..n]: a later model of the
\* same name replaces the earlier entry
SchemasOf(models, n, app_label, t) ==
    IF n = 0 THEN <<>>
    ELSE LET prev == SchemasOf(models, n - 1, app_label, t)
             model == models[n]
         IN IF Skipped(model, app_label) THEN prev
            ELSE (model.name :> get_model_schema(model, t)) @@ prev

\* get_all_models_schema(app_label) over apps.get_models(); "" is no app_label
get_all_models_schema(all_models, app_label, t) ==
    LET models == IF app_label # ""
                  THEN SelectSeq(all_models, LAMBDA m : m.app_label = app_label)
                  ELSE all_models
    IN SchemasOf(models, Len(models), app_label, t)

\* get_model_by_name(model_name) with no app_label, lines 222-226: the first
\* model of apps.get_models() of that class name, or None
get_model_by_name(all_models, model_name) ==
    LET found == {i \in DOMAIN all_models : all_models[i].name = model_name} IN
    IF found = {} THEN PyNone
    ELSE all_models[CHOOSE i \in found : \A j \in found : i <= j]

\* a Python list
PyList(s) == [type |-> "list", v |-> s]

\* x in a list
In(x, list) == \E i \in DOMAIN list.v : list.v[i] = x

\* a faulty variant: an empty allow-list is taken for an absent one
validate_model_access_falsy(model_name, allowed_models) ==
    IF allowed_models.type = "NoneType" \/ allowed_models.v = <<>>
    THEN TRUE
    ELSE In(model_name, allowed_models)

\* validate_model_access(model_name, allowed_models), lines 245-249
validate_model_access(model_name, allowed_models) ==
    IF allowed_models.type = "NoneType"
    THEN TRUE
    ELSE In(model_name, allowed_models)

\* ------------------------------------------------------- the stored tables
VARIABLES
    store,     \* store[m][id]: the row of model m with primary key id
    sequence,  \* sequence[m]: the last primary key the table of m handed out
    now,       \* the clock read by timezone.now()
    ret,       \* the last repository call and what it returned or raised
    field,     \* the field definition handed to get_field_schema
    registry,  \* apps.get_models(): the registered models, in order
    out,       \* the last introspection call and its result
    calls      \* calls[op]: the update and the delete call running step by step

vars == <<store, sequence, now, ret, field, registry, out, calls>>

\* model_class._meta.fields: the columns of the table
ColumnsOf ==
    [m \in Models |->
        SelectSeq(GetFields(m),
                  LAMBDA f : f.concrete /\ f.cls # "ManyToManyField")]

Columns(m) == ColumnsOf[m]

ColumnNamesOf ==
    [m \in Models |-> {ColumnsOf[m][i].name : i \in DOMAIN ColumnsOf[m]}]

ColumnNames(m) == ColumnNamesOf[m]

\* model_class._meta.get_field(n)
FieldsByName ==
    [m \in Models |->
        [n \in ColumnNamesOf[m] |->
            ColumnsOf[m][CHOOSE i \in DOMAIN ColumnsOf[m] :
                                  ColumnsOf[m][i].name = n]]]

FieldNamed(m, n) == FieldsByName[m][n]

\* the value a column holds: the plain value of a Python value
Plain(x) == IF x.type = "NoneType" THEN None ELSE x.v

\* raw_value in field.empty_values, for the type the column holds
IsEmpty(f, v) == IF empty_strings_allowed(f) THEN v = "" ELSE
                 IF f.cls = "BooleanField" THEN FALSE ELSE v = None

\* the field values a caller supplies, per model and field
InputValues(m, n) ==
    CASE m = "Project" /\ n = "name" -> {"p"}
      [] m = "Project" /\ n = "status" -> {"archived", "bogus"}
      [] m = "Project" /\ n = "start_date" -> {1}
      [] m = "Project" /\ n = "deadline" -> {0}
      [] m = "TeamMember" /\ n = "name" -> {"n"}
      [] m = "TeamMember" /\ n = "email" -> {"a@x"}
      [] m = "Tag" /\ n = "name" -> {"bug", "ui"}
      [] m = "Task" /\ n = "title" -> {"t"}
      [] m = "Task" /\ n = "project" -> {1}
      [] m = "Task" /\ n = "status" -> {"done", "bogus"}
      [] m = "Task" /\ n = "due_date" -> {0}
      [] m = "Task" /\ n = "completed_at" -> {0}
      [] m = "Task" /\ n = "created_at" -> {0}
      [] OTHER -> {}

InputFields(m) == {n \in ColumnNames(m) : InputValues(m, n) # {}}

\* the fields a row cannot do without: no null, no blank, no default
RequiredFields(m) ==
    {n \in InputFields(m) :
        LET f == FieldNamed(m, n) IN ~f.null /\ ~f.blank /\ ~has_default(f)}

RECURSIVE DataOver(_, _)
\* the mappings that supply a value for exactly the fields K
DataOver(m, K) ==
    IF K = {} THEN {<<>>}
    ELSE LET n == CHOOSE n \in K : TRUE IN
         {(n :> v) @@ d : v \in InputValues(m, n), d \in DataOver(m, K \ {n})}

\* the fields of a create call: some of the required fields alone, or all of
\* them with up to MaxExtra of the others
CreateKeys(m) ==
    (SUBSET RequiredFields(m))
    \cup {RequiredFields(m) \cup O :
             O \in {X \in SUBSET (InputFields(m) \ RequiredFields(m)) :
                      Cardinality(X) <= MaxExtra}}

\* the fields of an update call: up to MaxExtra of them
UpdateKeys(m) == {K \in SUBSET InputFields(m) : Cardinality(K) <= MaxExtra}

\* the data of the create calls and of the update calls, per model
CreateData == [m \in Models |-> UNION {DataOver(m, K) : K \in CreateKeys(m)}]

UpdateData == [m \in Models |-> UNION {DataOver(m, K) : K \in UpdateKeys(m)}]

\* ----------------------------------------------------- model instantiation
\* a faulty variant: the value supplied for a nullable field is dropped
NewInstanceDropsNullable(m, data, t) ==
    [n \in ColumnNames(m) |->
        IF n \in DOMAIN data /\ ~FieldNamed(m, n).null THEN data[n]
        ELSE Plain(get_default(FieldNamed(m, n), t))]

\* model_class(**data): a supplied value, or the field's default
NewInstance(m, data, t) ==
    [n \in ColumnNames(m) |->
        IF n \in DOMAIN data THEN data[n]
        ELSE Plain(get_default(FieldNamed(m, n), t))]

\* a faulty variant: a date the data does not name is reset
SetAttrsResetsDates(instance, data) ==
    [n \in DOMAIN instance |->
        IF n \in DOMAIN data THEN data[n]
        ELSE IF n \in {"start_date", "deadline", "due_date"} THEN None
        ELSE instance[n]]

\* setattr(instance, key, value) for every item of data
SetAttrs(instance, data) ==
    [n \in DOMAIN instance |->
        IF n \in DOMAIN data THEN data[n] ELSE instance[n]]

\* --------------------------------------------------------------- full_clean
NoErrors == <<>>

\* errors.setdefault(field, []).extend(messages), for every field of more
Merge(errors, more) ==
    [n \in DOMAIN errors \cup DOMAIN more |->
        (IF n \in DOMAIN errors THEN errors[n] ELSE <<>>)
        \o (IF n \in DOMAIN more THEN more[n] ELSE <<>>)]

ChoiceValues(f) == {f.choices[i][1] : i \in DOMAIN f.choices}

\* Field.clean(raw_value): the code of the ValidationError, or "" when valid
FieldError(st, f, v) ==
    IF ~f.editable THEN ""
    ELSE IF f.choices # <<>> /\ ~IsEmpty(f, v) /\ v \notin ChoiceValues(f)
    THEN "invalid_choice"
    ELSE IF ~empty_strings_allowed(f) /\ f.cls # "BooleanField"
            /\ v = None /\ ~f.null
    THEN "null"
    ELSE IF ~f.blank /\ IsEmpty(f, v) THEN "blank"
    ELSE IF f.cls = "ForeignKey" /\ v # None
            /\ v \notin DOMAIN st[f.related_model]
    THEN "invalid"
    ELSE ""

\* Model.clean_fields(): the errors per field
clean_fields(st, m, instance) ==
    LET bad == {n \in ColumnNames(m) :
                  LET f == FieldNamed(m, n) IN
                  /\ ~(f.blank /\ IsEmpty(f, instance[n]))
                  /\ FieldError(st, f, instance[n]) # ""}
    IN [n \in bad |-> << FieldError(st, FieldNamed(m, n), instance[n]) >>]

Raised(kind, errors) == [raised |-> kind, errors |-> errors]

\* Project.clean
ProjectClean(instance) ==
    IF /\ instance.start_date # None
       /\ instance.deadline # None
       /\ instance.deadline < instance.start_date
    THEN Raised("ValidationError",
                [deadline |-> << "Deadline must be after start date" >>])
    ELSE Raised("", NoErrors)

\* Task.clean at clock t: reading self.project raises when the task has no
\* project or the project row is gone
TaskClean(st, instance, t) ==
    IF instance.due_date # None /\ instance.due_date < t
    THEN Raised("ValidationError",
                [due_date |-> << "Due date cannot be in the past" >>])
    ELSE IF instance.project = None
    THEN Raised("RelatedObjectDoesNotExist", NoErrors)
    ELSE IF instance.project \notin DOMAIN st["Project"]
    THEN Raised("DoesNotExist", NoErrors)
    ELSE IF st["Project"][instance.project].status = "archived"
    THEN Raised("ValidationError",
                [project |-> << "Cannot create tasks for archived projects" >>])
    ELSE Raised("", NoErrors)

\* instance.clean()
clean(st, m, instance, t) ==
    CASE m = "Project" -> ProjectClean(instance)
      [] m = "Task" -> TaskClean(st, instance, t)
      [] OTHER -> Raised("", NoErrors)

\* Model.validate_unique(exclude): the unique fields, the primary key among
\* them, are looked up in the table
validate_unique(st, m, instance, exclude) ==
    LET adding == instance.id = None
        dup == {n \in ColumnNames(m) \ exclude :
                  LET f == FieldNamed(m, n) IN
                  /\ f.unique
                  /\ (empty_strings_allowed(f) \/ instance[n] # None)
                  /\ ~(n = "id" /\ ~adding)
                  /\ \E i \in DOMAIN st[m] :
                        /\ st[m][i][n] = instance[n]
                        /\ (adding \/ i # instance.id)}
    IN [n \in dup |-> << "unique" >>]

\* full_clean once clean_fields gave the errors e1 and clean the outcome c:
\* another error of clean goes up as it is; else the errors are merged, the
\* unique checks run on the fields without error, and any error is raised
FullCleanOutcome(st, m, instance, e1, c) ==
    IF c.raised \notin {"", "ValidationError"} THEN c
    ELSE LET e2 == Merge(e1, c.errors)
             e3 == Merge(e2, validate_unique(st, m, instance, DOMAIN e2))
         IN IF DOMAIN e3 # {} THEN Raised("ValidationError", e3)
            ELSE Raised("", NoErrors)

\* instance.full_clean(): what it raises, "" when the instance is valid
full_clean(st, m, instance, t) ==
    CHOOSE r \in {FullCleanOutcome(st, m, instance, e1, c) :
                    e1 \in {clean_fields(st, m, instance)},
                    c \in {clean(st, m, instance, t)}} : TRUE

\* --------------------------------------------------------------------- save
\* Task.save: completed_at follows status
TaskSave(instance, t) ==
    IF instance.status = "done" /\ instance.completed_at = None
    THEN [instance EXCEPT !.completed_at = t]
    ELSE IF instance.status # "done"
    THEN [instance EXCEPT !.completed_at = None]
    ELSE instance

\* Field.pre_save of every column: auto_now always, auto_now_add on insert
PreSave(m, instance, t) ==
    [n \in DOMAIN instance |->
        LET f == FieldNamed(m, n) IN
        IF f.auto_now \/ (f.auto_now_add /\ instance.id = None) THEN t
        ELSE instance[n]]

\* instance.save(): the instance as written, an insert taking the next key
Saved(st, m, instance, t) ==
    LET a == IF m = "Task" THEN TaskSave(instance, t) ELSE instance
        b == PreSave(m, a, t)
    IN IF b.id = None THEN [b EXCEPT !.id = sequence[m] + 1] ELSE b

\* the table of m with the row written
Written(st, m, row) ==
    [st EXCEPT ![m] = (row.id :> row) @@ st[m]]

\* ------------------------------------------------------------ repository
Return(op, m, id, data, returns, value) ==
    [op |-> op, model |-> m, id |-> id, data |-> data, returns |-> returns,
     raised |-> "", errors |-> NoErrors, value |-> value]

Raise(op, m, id, data, r) ==
    [op |-> op, model |-> m, id |-> id, data |-> data, returns |-> "raise",
     raised |-> r.raised, errors |-> r.errors, value |-> <<>>]

RECURSIVE Sum(_, _)
Sum(f, S) == IF S = {} THEN 0
             ELSE LET x == CHOOSE x \in S : TRUE IN f[x] + Sum(f, S \ {x})

Created == Sum(sequence, Models)

Ids == 1..MaxCreates

\* get_by_id(id): the row, or None
Exists(st, m, id) == id \in DOMAIN st[m]

SchemaVars == <<field, registry, out>>

\* a faulty variant: the instance is saved before it is validated
CreateSavesFirst(m, data) ==
    \E instance \in {NewInstance(m, data, now)} :
    \E r \in {full_clean(store, m, instance, now)} :
    \E row \in {Saved(store, m, instance, now)} :
       /\ Created < MaxCreates
       /\ store' = Written(store, m, row)
       /\ sequence' = [sequence EXCEPT ![m] = @ + 1]
       /\ ret' = IF r.raised # "" THEN Raise("create", m, 0, data, r)
                 ELSE Return("create", m, row.id, data, "instance", row)
       /\ UNCHANGED <<now, calls, SchemaVars>>

\* create(data), lines 119-122: instance, full_clean, save
Create(m, data) ==
    \E instance \in {NewInstance(m, data, now)} :
    \E r \in {full_clean(store, m, instance, now)} :
       /\ IF r.raised # ""
          THEN /\ ret' = Raise("create", m, 0, data, r)
               /\ UNCHANGED <<store, sequence>>
          ELSE \E row \in {Saved(store, m, instance, now)} :
               /\ Created < MaxCreates
               /\ store' = Written(store, m, row)
               /\ sequence' = [sequence EXCEPT ![m] = @ + 1]
               /\ ret' = Return("create", m, row.id, data, "instance", row)
       /\ UNCHANGED <<now, calls, SchemaVars>>

\* update(id, data), lines 138-148: get_by_id, setattr, full_clean, save
Update(m, id, data) ==
    /\ IF ~Exists(store, m, id)
       THEN /\ ret' = Return("update", m, id, data, "None", <<>>)
            /\ UNCHANGED store
       ELSE \E instance \in {SetAttrs(store[m][id], data)} :
            \E r \in {full_clean(store, m, instance, now)} :
               IF r.raised # ""
               THEN /\ ret' = Raise("update", m, id, data, r)
                    /\ UNCHANGED store
               ELSE \E row \in {Saved(store, m, instance, now)} :
                    /\ store' = Written(store, m, row)
                    /\ ret' = Return("update", m, id, data, "instance", row)
    /\ UNCHANGED <<sequence, now, calls, SchemaVars>>

\* a faulty variant: a delete leaves the row in the table
CollectedNothing(st, m, id) == st

\* instance.delete(): the row goes, tasks of a deleted project go with it
\* (on_delete=CASCADE), tasks of a deleted member lose their assignee
\* (on_delete=SET_NULL)
Collected(st, m, id) ==
    LET gone == [st EXCEPT ![m] = [i \in DOMAIN st[m] \ {id} |-> st[m][i]]]
        tasks == gone["Task"]
    IN CASE m = "Project" ->
              [gone EXCEPT !["Task"] =
                  [i \in {j \in DOMAIN tasks : tasks[j].project # id} |-> tasks[i]]]
         [] m = "TeamMember" ->
              [gone EXCEPT !["Task"] =
                  [i \in DOMAIN tasks |->
                      IF tasks[i].assigned_to = id
                      THEN [tasks[i] EXCEPT !.assigned_to = None]
                      ELSE tasks[i]]]
         [] OTHER -> gone

\* delete(id), lines 160-165
Delete(m, id) ==
    /\ IF ~Exists(store, m, id)
       THEN /\ ret' = Return("delete", m, id, <<>>, "False", <<>>)
            /\ UNCHANGED store
       ELSE /\ store' = Collected(store, m, id)
            /\ ret' = Return("delete", m, id, <<>>, "True", <<>>)
    /\ UNCHANGED <<sequence, now, calls, SchemaVars>>

\* get_by_id(id), lines 101-104
GetById(m, id) ==
    /\ ret' = IF Exists(store, m, id)
              THEN Return("get_by_id", m, id, <<>>, "instance", store[m][id])
              ELSE Return("get_by_id", m, id, <<>>, "None", <<>>)
    /\ UNCHANGED <<store, sequence, now, calls, SchemaVars>>

\* the clock advances
Tick ==
    /\ now < MaxTime
    /\ now' = now + 1
    /\ UNCHANGED <<store, sequence, ret, calls, SchemaVars>>

\* ------------------------------------------------------------------ get_all
\* the place of a name in the order of the database's collation
NameRank(s) ==
    CASE s = "bug" -> 1
      [] s = "n" -> 2
      [] s = "ui" -> 3
      [] OTHER -> 0

\* Meta.ordering as a sort key: ['-created_at'] for Project and Task,
\* ['name'] for TeamMember and Tag
OrderKey(m, row) ==
    IF m \in {"Project", "Task"} THEN 0 - row.created_at
    ELSE NameRank(row.name)

\* rows of equal key come in primary-key order
Before(m, a, b) ==
    \/ OrderKey(m, a) < OrderKey(m, b)
    \/ (OrderKey(m, a) = OrderKey(m, b) /\ a.id < b.id)

RECURSIVE Ordered(_, _)
\* model_class.objects.all() in Meta.ordering
Ordered(m, rows) ==
    IF DOMAIN rows = {} THEN <<>>
    ELSE LET i == CHOOSE i \in DOMAIN rows :
                      \A j \in DOMAIN rows \ {i} : Before(m, rows[i], rows[j])
         IN << rows[i] >>
            \o Ordered(m, [j \in DOMAIN rows \ {i} |-> rows[j]])

\* Paginator.num_pages: ceil(max(1, count) / per_page)
num_pages(count, per_page) ==
    LET hits == IF count < 1 THEN 1 ELSE count
    IN (hits + per_page - 1) \div per_page

\* Paginator.get_page: validate_number raises EmptyPage for a number below 1
\* and for one above num_pages, and get_page then takes the last page
get_page_number(number, count, per_page) ==
    IF number < 1 \/ number > num_pages(count, per_page)
    THEN num_pages(count, per_page)
    ELSE number

\* a faulty variant: the last page is cut to nothing
page_slice_short(object_list, number, per_page) ==
    LET count == Len(object_list)
        bottom == (number - 1) * per_page
        top == bottom + per_page
    IN SubSeq(object_list, bottom + 1, IF top >= count THEN bottom ELSE top)

\* Paginator.page(number).object_list: object_list[bottom:top]
page_slice(object_list, number, per_page) ==
    LET count == Len(object_list)
        bottom == (number - 1) * per_page
        top == IF bottom + per_page >= count THEN count ELSE bottom + per_page
    IN SubSeq(object_list, bottom + 1, top)

\* get_all(page=page, page_size=page_size) with no filters and no order_by
get_all(st, m, page, page_size) ==
    LET queryset == Ordered(m, st[m])
        count == Len(queryset)
        number == get_page_number(page, count, page_size)
    IN [data |-> page_slice(queryset, number, page_size),
        page |-> page,
        total_pages |-> num_pages(count, page_size),
        total_count |-> count]

\* the page numbers asked for: below 1, valid, beyond the last
Pages == (0 - 1)..(MaxCreates + 1)

PageSizes == 1..MaxPageSize

GetAll(m, page, page_size) ==
    /\ ret' = Return("get_all", m, 0,
                     [page |-> page, page_size |-> page_size], "page",
                     get_all(store, m, page, page_size))
    /\ UNCHANGED <<store, sequence, now, calls, SchemaVars>>

\* ------------------------------------------------------------ specification
NoCall ==
    [op |-> "", model |-> "", id |-> 0, data |-> <<>>, returns |-> "",
     raised |-> "", errors |-> NoErrors, value |-> <<>>]

NoOut == [op |-> "", arg |-> "", value |-> <<>>]

Registered(name, app_label, abstract) ==
    [name |-> name, app_label |-> app_label, abstract |-> abstract]

\* the application's models as apps.get_models() lists them
TaskModels ==
    << Registered("Project", "tasks", FALSE),
       Registered("TeamMember", "tasks", FALSE),
       Registered("Tag", "tasks", FALSE),
       Registered("Task", "tasks", FALSE) >>

\* a call of update or delete between its steps: where it stands, its
\* arguments, the instance it loaded, and what it returned
Idle ==
    [pc |-> "idle", model |-> "", id |-> 0, data |-> <<>>, instance |-> <<>>,
     returns |-> ""]

NoCalls == [op \in {"update", "delete"} |-> Idle]

StoreInit ==
    /\ store = [m \in Models |-> <<>>]
    /\ sequence = [m \in Models |-> 0]
    /\ ret = NoCall
    /\ calls = NoCalls

SchemaInit ==
    /\ field = IdField
    /\ registry = TaskModels
    /\ out = NoOut

Init ==
    /\ StoreInit
    /\ now = 0
    /\ SchemaInit

Next ==
    \/ \E m \in Models : \E data \in CreateData[m] : Create(m, data)
    \/ \E m \in Models : \E id \in Ids : \E data \in UpdateData[m] :
          Update(m, id, data)
    \/ \E m \in Models : \E id \in Ids : Delete(m, id)
    \/ \E m \in Models : \E id \in Ids : GetById(m, id)
    \/ Tick

Spec == Init /\ [][Next]_vars

\* ---------------------------------------------------------------- paging
\* the create calls that supply the required fields and nothing else
SeedData == [m \in Models |-> DataOver(m, RequiredFields(m))]

PageNext ==
    \/ \E m \in Models : \E data \in SeedData[m] : Create(m, data)
    \/ \E m \in Models : \E id \in Ids : Delete(m, id)
    \/ \E m \in Models : \E page \in Pages : \E page_size \in PageSizes :
          GetAll(m, page, page_size)
    \/ Tick

PageSpec == Init /\ [][PageNext]_vars

\* ------------------------------------------- update and delete, step by step
\* the call op standing at pc with the instance it holds
At(op, pc, instance) == [calls EXCEPT ![op].pc = pc, ![op].instance = instance]

\* the call op returned: its locals are gone, what it returned stays
Returned(op, returns) ==
    [calls EXCEPT ![op].pc = "returned", ![op].returns = returns,
                  ![op].data = <<>>, ![op].instance = <<>>]

\* a call may start when the one before it of the same kind is over
Free(op) == calls[op].pc \in {"idle", "returned"}

\* update, line 138: instance = get_by_id(id), None returned at once
UpdateLoad(m, id, data) ==
    /\ Free("update")
    /\ calls' = [calls EXCEPT !["update"] =
                    IF Exists(store, m, id)
                    THEN [pc |-> "loaded", model |-> m, id |-> id, data |-> data,
                          instance |-> store[m][id], returns |-> ""]
                    ELSE [pc |-> "returned", model |-> m, id |-> id,
                          data |-> <<>>, instance |-> <<>>, returns |-> "None"]]
    /\ UNCHANGED <<store, sequence, now, ret, SchemaVars>>

\* update, lines 143-146: the setattr loop and full_clean, which reads the
\* tables as they are now
UpdateValidate ==
    /\ calls["update"].pc = "loaded"
    /\ \E c \in {calls["update"]} :
       \E instance \in {SetAttrs(c.instance, c.data)} :
       \E r \in {full_clean(store, c.model, instance, now)} :
          calls' = IF r.raised # "" THEN Returned("update", r.raised)
                   ELSE At("update", "validated", instance)
    /\ UNCHANGED <<store, sequence, now, ret, SchemaVars>>

\* the constraints of the database on a row written: a foreign key names a
\* stored row, a unique column has no second row of the same value
IntegrityError(st, m, row) ==
    \E n \in ColumnNames(m) :
       LET f == FieldNamed(m, n) IN
       \/ /\ f.cls = "ForeignKey"
          /\ row[n] # None
          /\ row[n] \notin DOMAIN st[f.related_model]
       \/ /\ f.unique
          /\ n # "id"
          /\ (empty_strings_allowed(f) \/ row[n] # None)
          /\ \E i \in DOMAIN st[m] \ {row.id} : st[m][i][n] = row[n]

\* instance.save() of a loaded instance: the row of its primary key is
\* updated, and inserted when the table has no row of that key; an insert
\* stamps the auto_now_add columns too
SavedByKey(st, m, instance, t) ==
    IF Exists(st, m, instance.id) THEN Saved(st, m, instance, t)
    ELSE LET a == IF m = "Task" THEN TaskSave(instance, t) ELSE instance
         IN [PreSave(m, [a EXCEPT !.id = None], t) EXCEPT !.id = instance.id]

\* update, lines 147-148: instance.save(), return instance
UpdateSave ==
    /\ calls["update"].pc = "validated"
    /\ \E c \in {calls["update"]} :
       \E row \in {SavedByKey(store, c.model, c.instance, now)} :
          IF IntegrityError(store, c.model, row)
          THEN /\ calls' = Returned("update", "IntegrityError")
               /\ UNCHANGED store
          ELSE /\ store' = Written(store, c.model, row)
               /\ calls' = Returned("update", "instance")
    /\ UNCHANGED <<sequence, now, ret, SchemaVars>>

\* delete, lines 160-162: instance = get_by_id(id), False returned at once;
\* of the instance loaded the delete uses the primary key alone
DeleteLoad(m, id) ==
    /\ Free("delete")
    /\ calls' = [calls EXCEPT !["delete"] =
                    IF Exists(store, m, id)
                    THEN [pc |-> "loaded", model |-> m, id |-> id,
                          data |-> <<>>, instance |-> [id |-> id],
                          returns |-> ""]
                    ELSE [pc |-> "returned", model |-> m, id |-> id,
                          data |-> <<>>, instance |-> <<>>,
                          returns |-> "False"]]
    /\ UNCHANGED <<store, sequence, now, ret, SchemaVars>>

\* delete, lines 164-165: instance.delete(), return True
DeleteCollect ==
    /\ calls["delete"].pc = "loaded"
    /\ store' = Collected(store, calls["delete"].model, calls["delete"].id)
    /\ calls' = Returned("delete", "True")
    /\ UNCHANGED <<sequence, now, ret, SchemaVars>>

\* the data of the update calls that run step by step: nothing, or a status
\* or a name
RaceData ==
    [m \in Models |->
        {data \in UpdateData[m] : DOMAIN data \subseteq {"status", "name"}}]

RaceNext ==
    \/ \E m \in Models : \E data \in SeedData[m] : Create(m, data)
    \/ \E m \in Models : \E id \in Ids : \E data \in RaceData[m] :
          UpdateLoad(m, id, data)
    \/ UpdateValidate
    \/ UpdateSave
    \/ \E m \in Models : \E id \in Ids : DeleteLoad(m, id)
    \/ DeleteCollect
    \/ Tick

RaceSpec == Init /\ [][RaceNext]_vars

\* --------------------------------------------------------- introspection
StoreVars == <<store, sequence, now, ret>>

\* the field classes and the declared defaults a field definition is drawn from
FieldClasses ==
    {"CharField", "DecimalField", "DateTimeField", "ForeignKey",
     "ManyToManyField", "DurationField"}

Defaults ==
    {NOT_PROVIDED, PyNone, PyStr("x"), PyInt(0), PyBool(TRUE), PyDatetime(0),
     PyFunction("timezone.now"), PyFunction("dict"),
     PyFunction("default_factory")}

FieldDefs ==
    {[Field("f", cls) EXCEPT !.null = null, !.blank = blank,
                             !.default = default,
                             !.related_model =
                                 IF cls \in {"ForeignKey", "ManyToManyField"}
                                 THEN "Project" ELSE ""] :
        cls \in FieldClasses, null \in BOOLEAN, blank \in BOOLEAN,
        default \in Defaults}

GetFieldSchema ==
    /\ out' = [op |-> "get_field_schema", arg |-> field.name,
               value |-> get_field_schema(field, now)]
    /\ UNCHANGED <<StoreVars, calls, field, registry>>

GetModelSchema(i) ==
    /\ i \in DOMAIN registry
    /\ out' = [op |-> "get_model_schema", arg |-> registry[i].name,
               value |-> get_model_schema(registry[i], now)]
    /\ UNCHANGED <<StoreVars, calls, field, registry>>

FieldInit ==
    /\ StoreInit
    /\ now \in 0..MaxTime
    /\ field \in FieldDefs
    /\ registry = TaskModels
    /\ out = NoOut

FieldNext ==
    \/ GetFieldSchema
    \/ \E i \in DOMAIN TaskModels : GetModelSchema(i)

FieldSpec == FieldInit /\ [][FieldNext]_vars

\* the framework's models and an abstract base, which a catalog may hold
\* ahead of the application's models
OtherModels ==
    << Registered("LogEntry", "admin", FALSE),
       Registered("User", "auth", FALSE),
       Registered("ContentType", "contenttypes", FALSE),
       Registered("Session", "sessions", FALSE),
       Registered("TimeStamped", "tasks", TRUE),
       Registered("Task", "auth", FALSE) >>

Registries ==
    {SelectSeq(OtherModels,
               LAMBDA model : \E i \in S : OtherModels[i] = model)
        \o TaskModels : S \in SUBSET DOMAIN OtherModels}

\* the app_label arguments: none, the application, the framework's, unknown
AppLabels == {"", "tasks", "shop"} \cup BuiltinApps

GetAllModelsSchema(app_label) ==
    /\ out' = [op |-> "get_all_models_schema", arg |-> app_label,
               value |-> get_all_models_schema(registry, app_label, now)]
    /\ UNCHANGED <<StoreVars, calls, field, registry>>

CatalogInit ==
    /\ StoreInit
    /\ now = 0
    /\ field = IdField
    /\ registry \in Registries
    /\ out = NoOut

CatalogNext == \E app_label \in AppLabels : GetAllModelsSchema(app_label)

CatalogSpec == CatalogInit /\ [][CatalogNext]_vars

\* ------------------------------------------------------------ model access
\* the model names asked for: registered names, other spellings of them, a
\* framework model, the word of the all-schemas URL, a wildcard, the empty name
ModelNames == {"Task", "task", "TASK", "Project", "User", "all", "*", ""}

\* the names an allow-list may hold
AllowedNames == {"Task", "task", "Project", "*"}

RECURSIVE ListsOver(_, _)
\* the lists of at most n elements of S
ListsOver(S, n) ==
    IF n = 0 THEN {<<>>}
    ELSE LET shorter == ListsOver(S, n - 1) IN
         shorter \cup {Append(l, x) : l \in shorter, x \in S}

\* allowed_models: Optional[List[str]]
AllowLists == {PyNone} \cup {PyList(l) : l \in ListsOver(AllowedNames, MaxAllowed)}

ValidateModelAccess(model_name, allowed_models) ==
    /\ out' = [op |-> "validate_model_access",
               arg |-> [model_name |-> model_name,
                        allowed_models |-> allowed_models],
               value |-> validate_model_access(model_name, allowed_models)]
    /\ UNCHANGED <<StoreVars, calls, field, registry>>

AccessInit ==
    /\ StoreInit
    /\ now = 0
    /\ SchemaInit

AccessNext ==
    \E model_name \in ModelNames : \E allowed_models \in AllowLists :
       ValidateModelAccess(model_name, allowed_models)

AccessSpec == AccessInit /\ [][AccessNext]_vars

\* ------------------------------------------- views/dynamic.py, config/urls.py
\* ALLOWED_MODELS, dynamic.py line 20
ALLOWED_MODELS == PyList(<< "Task", "Project", "TeamMember", "Tag" >>)

\* JsonResponse(data, status=...)
JsonResponse(data, status) == [status |-> status, body |-> data]

\* the answer of require_http_methods(["GET"]) to another method
HttpResponseNotAllowed == [status |-> 405, body |-> <<>>]

\* get_schema_view(request, model_name), lines 32-49
get_schema_view(all_models, model_name, t) ==
    IF ~validate_model_access(model_name, ALLOWED_MODELS)
    THEN JsonResponse([error |-> "Model " \o model_name \o " is not accessible"],
                      403)
    ELSE LET model_class == get_model_by_name(all_models, model_name) IN
         IF model_class = PyNone
         THEN JsonResponse([error |-> "Model " \o model_name \o " not found"],
                           404)
         ELSE JsonResponse(get_model_schema(model_class, t), 200)

\* get_all_schemas_view(request), lines 61-70
get_all_schemas_view(all_models, t) ==
    LET all_schemas == get_all_models_schema(all_models, "", t)
        filtered_schemas ==
            [name \in {n \in DOMAIN all_schemas : In(n, ALLOWED_MODELS)} |->
                all_schemas[name]]
    IN JsonResponse(filtered_schemas, 200)

\* health_check(request), lines 81-84
health_check ==
    JsonResponse([status |-> "ok", message |-> "TaskFlow API is running"], 200)

\* A route is the sequence of the parts its text has between the slashes:
\* 'api/schema/<str:model_name>/' has the parts api, schema, the converter
\* and the empty part after the last slash.
Literal(text) == [kind |-> "literal", text |-> text]
Converter(type, name) == [kind |-> type, text |-> name]

\* path(route, view) and path(route, include)
path(route, view, include) == [route |-> route, view |-> view, include |-> include]

\* urlpatterns, urls.py lines 25-38, in the declared order
urlpatterns ==
    << path(<< Literal("admin"), Literal("") >>, "admin.site.urls", TRUE),
       path(<< Literal("api"), Literal("health"), Literal("") >>,
            "health_check", FALSE),
       path(<< Literal("api"), Literal("schema"),
               Converter("str", "model_name"), Literal("") >>,
            "get_schema_view", FALSE),
       path(<< Literal("api"), Literal("schema"), Literal("all"),
               Literal("") >>,
            "get_all_schemas_view", FALSE) >>

\* a part of a route against a segment of the request's path: the str
\* converter takes any non-empty segment
PartMatches(part, segment) ==
    IF part.kind = "literal" THEN segment = part.text
    ELSE segment # ""

\* a pattern against the request's path, split at its slashes after the
\* leading one: an include matches a prefix, a view the whole path
Matches(pattern, segments) ==
    LET route == pattern.route
        n == IF pattern.include THEN Len(route) - 1 ELSE Len(route)
    IN /\ IF pattern.include THEN Len(segments) > n ELSE Len(segments) = n
       /\ \A i \in 1..n : PartMatches(route[i], segments[i])

\* the resolver: the first pattern that matches, 0 for none (Resolver404)
resolve(segments) ==
    LET matching == {i \in DOMAIN urlpatterns : Matches(urlpatterns[i], segments)}
    IN IF matching = {} THEN 0
       ELSE CHOOSE i \in matching : \A j \in matching : i <= j

\* the keyword arguments the converters of a pattern take from the path
Kwargs(pattern, segments) ==
    LET named == {i \in DOMAIN pattern.route : pattern.route[i].kind # "literal"}
    IN [name \in {pattern.route[i].text : i \in named} |->
           segments[CHOOSE i \in named : pattern.route[i].text = name]]

\* the request methods, and the paths asked for
Methods == {"GET", "HEAD", "OPTIONS"}

Paths ==
    { << "api", "schema", "all", "" >>, << "api", "schema", "Task", "" >>,
      << "api", "schema", "task", "" >>, << "api", "schema", "Project", "" >>,
      << "api", "schema", "User", "" >>, << "api", "schema", "Nope", "" >>,
      << "api", "schema", "", "" >>, << "api", "schema", "all", "x", "" >>,
      << "api", "health", "" >>, << "api", "" >>, << "admin", "" >>, << "" >> }

\* what the admin site answers is left open
AdminStatuses == {200, 302, 404}

\* a request: resolved to a view, which answers it
Request(method, segments) ==
    LET i == resolve(segments)
        request == [method |-> method, path |-> segments]
    IN
    /\ \E response \in
            IF i = 0 THEN {[status |-> 404, body |-> <<>>]}
            ELSE IF urlpatterns[i].include
            THEN {[status |-> status, body |-> <<>>] : status \in AdminStatuses}
            ELSE IF method # "GET" THEN {HttpResponseNotAllowed}
            ELSE IF urlpatterns[i].view = "health_check" THEN {health_check}
            ELSE IF urlpatterns[i].view = "get_schema_view"
            THEN {get_schema_view(registry,
                      Kwargs(urlpatterns[i], segments).model_name, now)}
            ELSE {get_all_schemas_view(registry, now)} :
          out' = [op |-> IF i = 0 THEN "Resolver404" ELSE urlpatterns[i].view,
                  arg |-> request, value |-> response]
    /\ UNCHANGED <<StoreVars, calls, field, registry>>

RouteNext == \E method \in Methods : \E segments \in Paths : Request(method, segments)

RouteSpec == CatalogInit /\ [][RouteNext]_vars

\* ------------------------------------------------------------------ claims
\* a step that is a repository call: every call leaves the clock alone
IsCall == now' = now

\* C1: a create or update call that raises out of full_clean leaves every
\* table as it was: no row added, no stored field changed.
C1_FailedValidationLeavesStore ==
    [][(IsCall /\ ret'.op \in {"create", "update"} /\ ret'.returns = "raise")
          => store' = store]_vars

\* C1 witness: an update of a stored task was refused with a ValidationError
C1_Witness ==
    /\ ret.op = "update"
    /\ ret.raised = "ValidationError"
    /\ ret.model = "Task"
    /\ ret.id \in DOMAIN store["Task"]

\* C2 as stated: after a successful create the stored row equals the data on
\* every supplied field.
C2_CreateKeepsEverySuppliedField ==
    (ret.op = "create" /\ ret.returns = "instance")
        => \A n \in DOMAIN ret.data :
              store[ret.model][ret.id][n] = ret.data[n]

\* the fields a save sets by itself: the auto_now/auto_now_add stamps and
\* Task.completed_at, which Task.save derives from status
ServerSet == {"created_at", "updated_at", "completed_at"}

\* C2 amended: after a successful create the stored row equals the data on
\* every supplied field other than created_at, updated_at and completed_at.
C2_CreateKeepsSuppliedFields ==
    (ret.op = "create" /\ ret.returns = "instance")
        => /\ ret.id \in DOMAIN store[ret.model]
           /\ \A n \in DOMAIN ret.data \ ServerSet :
                 store[ret.model][ret.id][n] = ret.data[n]

\* C2 witness: a task was created with a due date next to its required fields
C2_Witness ==
    /\ ret.op = "create"
    /\ ret.returns = "instance"
    /\ ret.model = "Task"
    /\ "due_date" \in DOMAIN ret.data
    /\ store["Task"][ret.id].due_date = 0

\* a step that is a successful update of a stored row
IsUpdate ==
    /\ IsCall
    /\ ret'.op = "update"
    /\ ret'.returns = "instance"
    /\ ret'.id \in DOMAIN store[ret'.model]

C4_DeleteThenAbsent ==
    [][/\ (IsCall /\ ret'.op = "delete") =>
             /\ ret'.returns \in {"True", "False"}
             /\ (ret'.returns = "True") = (ret'.id \in DOMAIN store[ret'.model])
             /\ ret'.id \notin DOMAIN store'[ret'.model]
       /\ (IsCall /\ ret'.op \in {"delete", "update", "get_by_id"}
                  /\ ret'.id \notin DOMAIN store[ret'.model]) =>
             /\ ret'.returns = (IF ret'.op = "delete" THEN "False" ELSE "None")
             /\ store' = store
       /\ \A m \in Models : \A id \in Ids :
             (id <= sequence[m] /\ id \notin DOMAIN store[m])
                => id \notin DOMAIN store'[m]]_vars

\* C4 witness: a second delete of a key that was once stored returned False
C4_Witness ==
    /\ ret.op = "delete"
    /\ ret.returns = "False"
    /\ ret.id <= sequence[ret.model]

\* C5 as stated: a create call that fails raises a ValidationError that maps
\* field names to non-empty lists of messages, and nothing else.
C5_CreateRaisesOnlyValidationError ==
    (ret.op = "create" /\ ret.returns = "raise")
        => /\ ret.raised = "ValidationError"
           /\ DOMAIN ret.errors # {}
           /\ \A n \in DOMAIN ret.errors : Len(ret.errors[n]) > 0

RECURSIVE PagesLength(_, _, _, _)
\* the sum of len(data) over the requests page = 1..n
PagesLength(st, m, n, page_size) ==
    IF n = 0 THEN 0
    ELSE Len(get_all(st, m, n, page_size).data)
         + PagesLength(st, m, n - 1, page_size)

\* the number of places the row with key id takes on pages 1..n
Places(st, m, id, n, page_size) ==
    Cardinality({<<p, i>> \in (1..n) \X (1..page_size) :
                   LET data == get_all(st, m, p, page_size).data IN
                   i \in DOMAIN data /\ data[i].id = id})

\* C6: for N stored rows and a page size P >= 1 every get_all result has
\* total_count = N and total_pages = max(1, ceil(N/P)), the lengths of the
\* pages 1..total_pages add up to N, and every row is on exactly one page.
C6_PagesPartitionRows ==
    \A m \in Models : \A P \in PageSizes :
       LET N == Cardinality(DOMAIN store[m])
           pages == get_all(store, m, 1, P).total_pages
       IN /\ \A page \in Pages :
                /\ get_all(store, m, page, P).total_count = N
                /\ get_all(store, m, page, P).total_pages = pages
          /\ pages >= 1
          /\ (pages - 1) * P < (IF N = 0 THEN 1 ELSE N)
          /\ N <= pages * P
          /\ PagesLength(store, m, pages, P) = N
          /\ \A id \in DOMAIN store[m] : Places(store, m, id, pages, P) = 1

\* C6 witness: get_all was asked for the second page of P + 1 rows
C6_Witness ==
    /\ ret.op = "get_all"
    /\ ret.data.page = 2
    /\ ret.value.total_count = ret.data.page_size + 1
    /\ ret.value.total_pages = 2
    /\ Len(ret.value.data) = 1

\* C7 as stated: a page below 1 gets the rows of the first page, a page above
\* total_pages those of the last, an empty table no rows, and nothing is
\* raised.
C7_NearestValidPage ==
    (ret.op = "get_all") =>
       LET first == get_all(store, ret.model, 1, ret.data.page_size)
           last == get_all(store, ret.model, first.total_pages,
                           ret.data.page_size)
       IN /\ ret.returns = "page"
          /\ ret.data.page < 1 => ret.value.data = first.data
          /\ ret.data.page > first.total_pages => ret.value.data = last.data
          /\ ret.value.total_count = 0 => ret.value.data = <<>>

\* the field definitions behind the entries of a model's schema
Declared(model) ==
    SelectSeq(FieldsOf(model),
              LAMBDA f : ~(f.auto_created /\ ~f.concrete))

\* the schema entries the last introspection call emitted, each with the
\* field definition it was made from
Emitted ==
    CASE out.op = "get_field_schema" -> {<<out.value, field>>}
      [] out.op = "get_model_schema" ->
           LET model == CHOOSE r \in {registry[i] : i \in DOMAIN registry} :
                           r.name = out.arg
           IN {<<out.value.fields[i], Declared(model)[i]>> :
                  i \in DOMAIN out.value.fields}
      [] OTHER -> {}

\* C8: in every emitted field entry, of a scalar or of a relationship field,
\* required = not null and not blank and not has-default.
C8_RequiredDerivable ==
    /\ out.op = "get_model_schema" =>
          \E i \in DOMAIN registry :
             /\ registry[i].name = out.arg
             /\ Len(out.value.fields) = Len(Declared(registry[i]))
    /\ \A e \in Emitted :
          /\ e[1].name = e[2].name
          /\ e[1].required =
                (~e[2].null /\ ~e[2].blank /\ e[2].default = NOT_PROVIDED)

\* C8 witness: a relationship field with a default, neither null nor blank,
\* was reported as not required
C8_Witness ==
    /\ out.op = "get_field_schema"
    /\ field.cls = "ForeignKey"
    /\ ~field.null /\ ~field.blank /\ field.default # NOT_PROVIDED
    /\ out.value.required = FALSE
    /\ out.value.many = FALSE

\* C9 as stated: the default of a scalar field's entry is null for a callable
\* default and for no default, the declared value for a str, number, bool or
\* null, and the string form of any other value.
C9_DefaultSerialised ==
    \A e \in Emitted :
       ~IsRelation(e[2]) =>
          e[1].default =
             (IF e[2].default = NOT_PROVIDED \/ e[2].default.type = "function"
              THEN PyNone
              ELSE IF e[2].default.type \in {"str", "int", "float", "bool",
                                             "NoneType"}
              THEN e[2].default
              ELSE str(e[2].default))

\* the models a catalog registers under a name and namespace
RegisteredAs(name, app_label) ==
    {registry[i] : i \in {j \in DOMAIN registry :
                            /\ registry[j].name = name
                            /\ registry[j].app_label = app_label}}

\* C10: whatever the catalog and the app_label, the mapping returned by
\* get_all_models_schema holds no abstract model and no model of the
\* namespaces auth, contenttypes, sessions, admin.
C10_NoBuiltinNoAbstract ==
    (out.op = "get_all_models_schema") =>
       \A name \in DOMAIN out.value :
          LET schema == out.value[name] IN
          /\ schema.model_name = name
          /\ schema.app_label \notin {"auth", "contenttypes", "sessions", "admin"}
          /\ RegisteredAs(name, schema.app_label) # {}
          /\ \A model \in RegisteredAs(name, schema.app_label) : ~model.abstract

\* C10 witness: the schemas of the namespace auth were asked of a catalog
\* that registers a model of auth and an abstract model
C10_Witness ==
    /\ out.op = "get_all_models_schema"
    /\ out.arg = "auth"
    /\ \E i \in DOMAIN registry : registry[i].app_label = "auth"
    /\ \E i \in DOMAIN registry : registry[i].abstract
    /\ out.value = <<>>

\* the names an allow-list holds
Listed(allowed_models) == {allowed_models.v[i] : i \in DOMAIN allowed_models.v}

\* C11: validate_model_access returns True for every model name when
\* allowed_models is None; otherwise it returns True exactly when the name is
\* an element of the list by exact, case-sensitive equality, so that an
\* empty list denies every name.
C11_AllowListMembership ==
    (out.op = "validate_model_access") =>
       LET model_name == out.arg.model_name
           allowed_models == out.arg.allowed_models
       IN IF allowed_models.type = "NoneType"
          THEN out.value = TRUE
          ELSE /\ out.value = (model_name \in Listed(allowed_models))
               /\ (Listed(allowed_models) = {} => out.value = FALSE)

\* C11 witness: a name that differs from the listed one only in case was
\* denied
C11_Witness ==
    /\ out.op = "validate_model_access"
    /\ out.arg.model_name = "task"
    /\ out.arg.allowed_models = PyList(<< "Task" >>)
    /\ out.value = FALSE

\* C12 as stated: a GET request to /api/schema/all/ is dispatched to
\* get_all_schemas_view and answered with the schemas of the allowed models,
\* not with an answer of get_schema_view for a model named 'all'.
C12_AllSchemasReachable ==
    (out.op # "" /\ out.arg.method = "GET"
       /\ out.arg.path = << "api", "schema", "all", "" >>) =>
       /\ out.op = "get_all_schemas_view"
       /\ out.value = get_all_schemas_view(registry, now)

\* C13 as stated: under any interleaving of the steps of an update call and
\* of a delete call, once delete(id) has returned True the record is absent,
\* so that get_by_id(id) returns None (primary keys are never handed out
\* twice, so no create brings the key back).
C13_DeletedStaysAbsent ==
    (calls["delete"].pc = "returned" /\ calls["delete"].returns = "True") =>
       ~Exists(store, calls["delete"].model, calls["delete"].id)

====
